---- MODULE Spec2Model ----
(***************************************************************************)
(* A model of lofty-rs's APE tag writer (src/logic/ape/tag/write.rs) and   *)
(* of its IFF chunk cursor (src/iff/chunk.rs).                             *)
(*                                                                         *)
(* Files, buffers and serialized tags are sequences of bytes (0..255).     *)
(* Lengths that the code holds in u32/u64/usize are kept as pairs          *)
(* [hi, lo] in base 2^16, so that the 32-bit limit is represented exactly. *)
(***************************************************************************)
EXTENDS Integers, Sequences, FiniteSets, TLC

VARIABLES
    \* write_to
    data,               \* the bytes of the file on disk
    tag,                \* the caller's tag (ApeTagRef)
    pc,                 \* where write_to stands
    result,             \* "None" while running, then "Ok", an error or "Panic"
    read_only,          \* Option<ApeTag>: the read-only items kept (line 33)
    header_ape_tag,     \* (found, (start, end)) of the leading tag (line 37)
    ape_position,       \* where a new tag belongs (line 62)
    ape_tag_location,   \* Option<Range>: the trailing tag (line 69)
    written,            \* the tag handed to create_ape_tag (lines 92-96)
    tag_bytes,          \* the serialized tag (line 92)
    file_bytes,         \* the in-memory copy of the file (line 100)
    orig,               \* the file as it was when write_to was called
    existing_h,         \* the leading tag as parsed, before retain (line 43)
    existing_f,         \* the trailing tag as parsed, before retain (line 75)
    calls,              \* how many times write_to was called on the file
    \* create_ape_tag applied on its own
    ser,                \* [tag, out, done]
    \* Chunks<B> over a stream
    order,              \* B: "BE" or "LE"
    layout,             \* the chunks the stream was made of
    stream,             \* the bytes of the stream
    cpos,               \* the stream position
    chunks,             \* the Chunks value: [fourcc, size]
    phase,              \* "header": a chunk header comes next; "payload": next()
                        \* has read one; "unpadded": the payload was read without
                        \* padding correction; "err", "eof"
    payload_start,      \* the position next() left
    last_op,            \* the last operation called
    returned,           \* what the last read returned
    padded              \* every chunk so far was left by a padding-correcting
                        \* operation

apeVars == <<data, tag, pc, result, read_only, header_ape_tag, ape_position,
             ape_tag_location, written, tag_bytes, file_bytes, orig,
             existing_h, existing_f, calls>>
serVars == <<ser>>
chunkVars == <<order, layout, stream, cpos, chunks, phase, payload_start,
               last_op, returned, padded>>
vars == <<apeVars, serVars, chunkVars>>

----------------------------------------------------------------------------
(* Bounds of the model *)

\* how far below u32::MAX the large payload lengths start
MaxBack == 90
\* the most items a caller's tag holds
MaxItems == 2
\* the most calls of write_to on one file
MaxCalls == 2
\* the most chunks of a stream, and the longest text payload
MaxChunks == 2
MaxPayload == 3
\* the lengths of the audio data of a file
ShortAudio == 4
LongAudio == 40

----------------------------------------------------------------------------
(* Byte sequences *)

Take(s, n) == SubSeq(s, 1, n)
Drop(s, n) == SubSeq(s, n + 1, Len(s))
\* the bytes of s at offsets [a, b)
Slice(s, a, b) == SubSeq(s, a + 1, b)
Zeros(n) == [i \in 1..n |-> 0]

----------------------------------------------------------------------------
(* Unsigned lengths of up to 64 bits: value = hi * 2^16 + lo *)

Half == 256 * 256

U64(n) == [hi |-> n \div Half, lo |-> n % Half]
Add(a, b) ==
    LET s == a.lo + b.lo
    IN  [hi |-> a.hi + b.hi + (s \div Half), lo |-> s % Half]
Back(a, n) ==
    IF a.lo >= n THEN [hi |-> a.hi, lo |-> a.lo - n]
    ELSE [hi |-> a.hi - 1, lo |-> a.lo + Half - n]
GT(a, b) == a.hi > b.hi \/ (a.hi = b.hi /\ a.lo > b.lo)
\* u32::MAX
U32_MAX == [hi |-> Half - 1, lo |-> Half - 1]
\* `x as u32`
AsU32(a) == [hi |-> a.hi % Half, lo |-> a.lo]
\* write_u32::<LittleEndian>
LE32(a) == <<a.lo % 256, a.lo \div 256, a.hi % 256, (a.hi \div 256) % 256>>
\* read_u32::<LittleEndian>
ReadLE32(b) == [hi |-> b[3] + 256 * b[4], lo |-> b[1] + 256 * b[2]]
\* a 32-bit flag word given by the set of its set bits, little endian
Pow2(n) == 2 ^ n
BitsLE32(bits) ==
    LET byte(k) == LET S == {b \in bits : b \div 8 = k}
                       sum[T \in SUBSET S] ==
                           IF T = {} THEN 0
                           ELSE LET b == CHOOSE x \in T : TRUE
                                IN  Pow2(b % 8) + sum[T \ {b}]
                   IN  sum[S]
    IN  <<byte(0), byte(1), byte(2), byte(3)>>

----------------------------------------------------------------------------
(* The APE tag serializer: create_ape_tag *)

APE_PREAMBLE == <<65, 80, 69, 84, 65, 71, 69, 88>>     \* "APETAGEX"
ApeVersion == 2000
FooterLen == 32

\* An item: key bytes, value kind, value bytes, read-only flag.  `bulk` is a
\* count of further value bytes that are not written out in the model (a
\* payload too large to enumerate); it is 0 for every item whose bytes matter.
Item(k, kind, v, ro) ==
    [key |-> k, kind |-> kind, value |-> v, bulk |-> U64(0), read_only |-> ro]

\* value.len()
ValueLen(item) == Add(U64(Len(item.value)), item.bulk)

\* the item's flags word (lines 135-155)
ItemFlags(item) ==
    LET kindBits == CASE item.kind = "Binary"  -> {1}
                      [] item.kind = "Text"    -> {}
                      [] item.kind = "Locator" -> {2}
    IN  kindBits \cup (IF item.read_only THEN {0} ELSE {})

\* the bytes one loop iteration appends to tag_write (lines 134-163)
WriteItem(item) ==
    LE32(AsU32(ValueLen(item))) \o BitsLE32(ItemFlags(item))
        \o item.key \o <<0>> \o item.value

\* the length one loop iteration adds to tag_write
ItemLen(item) == Add(U64(8 + Len(item.key) + 1), ValueLen(item))

RECURSIVE WriteItems(_)
WriteItems(items) ==
    IF items = <<>> THEN <<>>
    ELSE WriteItem(Head(items)) \o WriteItems(Tail(items))

\* tag_write.get_ref().len() after the loop (line 165)
RECURSIVE ItemsSize(_)
ItemsSize(items) ==
    IF items = <<>> THEN U64(0)
    ELSE Add(ItemLen(Head(items)), ItemsSize(Tail(items)))

\* the overflow guard (line 167)
TooMuchDataNoFooter(size) == GT(size, U32_MAX)
TooMuchData(size) == GT(Add(size, U64(FooterLen)), U32_MAX)

\* footer flags (lines 184-189) and header flags (lines 205-210)
FooterFlags(ro) == {30, 31} \cup (IF ro THEN {0} ELSE {})
HeaderFlagsNoBit29(ro) == {30, 31} \cup (IF ro THEN {0} ELSE {})
HeaderFlags(ro) == {29, 30, 31} \cup (IF ro THEN {0} ELSE {})

\* the 32-byte footer (lines 171-193)
Footer(size, item_count, ro) ==
    APE_PREAMBLE
        \o LE32(U64(ApeVersion))
        \o LE32(AsU32(Add(size, U64(FooterLen))))
        \o LE32(U64(item_count))
        \o BitsLE32(FooterFlags(ro))
        \o Zeros(8)

\* the header: the footer with its flags overwritten in place (lines 199-214)
Header(footer, ro) ==
    Take(footer, FooterLen - 12) \o BitsLE32(HeaderFlags(ro))
        \o Drop(footer, FooterLen - 8)

\* create_ape_tag without the early return for no items (lines 126-128)
CreateApeTagFramed(t) ==
    LET size == ItemsSize(t.items)
    IN  IF TooMuchData(size)
        THEN [err |-> "TooMuchData", bytes |-> <<>>, len |-> U64(0)]
        ELSE LET footer == Footer(size, Len(t.items), t.read_only)
                 header == Header(footer, t.read_only)
             IN  [err |-> "None",
                  bytes |-> header \o WriteItems(t.items) \o footer,
                  len |-> Add(size, U64(2 * FooterLen))]

\* create_ape_tag: err is "None" on Ok.  bytes are the returned bytes (without
\* the bulk of the values), len is their true length.
CreateApeTag(t) ==
    IF t.items = <<>>
    THEN [err |-> "None", bytes |-> <<>>, len |-> U64(0)]
    ELSE LET size == ItemsSize(t.items)
         IN  IF TooMuchData(size)
             THEN [err |-> "TooMuchData", bytes |-> <<>>, len |-> U64(0)]
             ELSE LET footer == Footer(size, Len(t.items), t.read_only)
                      header == Header(footer, t.read_only)
                  IN  [err |-> "None",
                       bytes |-> header \o WriteItems(t.items) \o footer,
                       len |-> Add(size, U64(2 * FooterLen))]

----------------------------------------------------------------------------
(* Inputs *)

NoOutput == [err |-> "None", bytes |-> <<>>, len |-> U64(0)]
SerIdle == ser = [tag |-> [items |-> <<>>, read_only |-> FALSE], out |-> NoOutput, done |-> TRUE]

KeyA == <<65>>
KeyB == <<66>>
KeyC == <<67>>
ItemA  == Item(KeyA, "Text", <<120>>, FALSE)
ItemB  == Item(KeyB, "Binary", <<1, 2>>, TRUE)
ItemA2 == Item(KeyA, "Text", <<121, 122>>, TRUE)
ItemC  == Item(KeyC, "Locator", <<117>>, FALSE)

Tag(items, ro) == [items |-> items, read_only |-> ro]

\* an item with a payload of n further bytes
Bulky(item, n) == [item EXCEPT !.bulk = n]

SmallItemSeqs ==
    {<<>>, <<ItemA>>, <<ItemB>>, <<ItemC>>, <<ItemA2>>, <<ItemA, ItemB>>,
     <<ItemB, ItemA>>, <<ItemC, ItemA2>>, <<ItemB, ItemC>>, <<ItemA, ItemC>>}

\* payload lengths around the 32-bit limit
SerBulks == {Back(U32_MAX, k) : k \in 0..MaxBack}

SerTags ==
    {Tag(s, ro) : s \in SmallItemSeqs, ro \in BOOLEAN}
        \cup {Tag(<<Bulky(ItemA, n)>>, FALSE) : n \in SerBulks}
        \cup {Tag(<<ItemB, Bulky(ItemC, n)>>, TRUE) : n \in SerBulks}

----------------------------------------------------------------------------
(* The collaborators of write_to: the probe, the tag reader, the skippers *)

ToNat(a) == a.hi * Half + a.lo
MinOf(S) == CHOOSE x \in S : \A y \in S : x <= y

\* The items of a tag block: n items read from offset q on.
RECURSIVE ReadItems(_, _, _)
ReadItems(bytes, q, n) ==
    IF n = 0 THEN [err |-> "None", items |-> <<>>]
    ELSE IF q + 8 > Len(bytes) THEN [err |-> "UnexpectedEof", items |-> <<>>]
    ELSE
        LET value_size == ReadLE32(Slice(bytes, q, q + 4))
            flags == bytes[q + 5]
            nuls == {i \in (q + 9)..Len(bytes) : bytes[i] = 0}
        IN  IF nuls = {} THEN [err |-> "UnexpectedEof", items |-> <<>>]
            ELSE
                LET z == MinOf(nuls)
                IN  IF GT(value_size, U64(Len(bytes) - z))
                    THEN [err |-> "UnexpectedEof", items |-> <<>>]
                    ELSE IF (flags \div 2) % 4 = 3
                    THEN [err |-> "BadItem", items |-> <<>>]
                    ELSE
                        LET item ==
                                Item(SubSeq(bytes, q + 9, z - 1),
                                     CASE (flags \div 2) % 4 = 0 -> "Text"
                                       [] (flags \div 2) % 4 = 1 -> "Binary"
                                       [] (flags \div 2) % 4 = 2 -> "Locator",
                                     Slice(bytes, z, z + ToNat(value_size)),
                                     flags % 2 = 1)
                            rest == ReadItems(bytes, z + ToNat(value_size), n - 1)
                        IN  [err |-> rest.err,
                             items |-> IF rest.err = "None"
                                       THEN <<item>> \o rest.items ELSE <<>>]

NoTag == [items |-> <<>>, read_only |-> FALSE]

\* read_ape_tag(data, footer) with the stream at p, just past a preamble:
\* the parsed tag and the tag's size, the header counted for version 2000.
ReadApeTag(bytes, p, footer) ==
    IF p + 12 > Len(bytes)
    THEN [err |-> "UnexpectedEof", tag |-> NoTag, size |-> U64(0)]
    ELSE
        LET version == ReadLE32(Slice(bytes, p, p + 4))
            size == ReadLE32(Slice(bytes, p + 4, p + 8))
            item_count == ReadLE32(Slice(bytes, p + 8, p + 12))
        IN  IF ~GT(size, U64(FooterLen - 1))
            THEN [err |-> "BadTagSize", tag |-> NoTag, size |-> U64(0)]
            ELSE IF footer /\ GT(size, U64(p + 24))
            THEN [err |-> "SeekBeforeStart", tag |-> NoTag, size |-> U64(0)]
            ELSE IF GT(item_count, U64(Len(bytes)))
            THEN [err |-> "UnexpectedEof", tag |-> NoTag, size |-> U64(0)]
            ELSE
                LET q == IF footer THEN p + 24 - ToNat(size) ELSE p + 24
                    got == ReadItems(bytes, q, ToNat(item_count))
                    block_ro == p + 13 <= Len(bytes) /\ bytes[p + 13] % 2 = 1
                IN  IF got.err # "None"
                    THEN [err |-> got.err, tag |-> NoTag, size |-> U64(0)]
                    ELSE [err |-> "None",
                          tag |-> [items |-> got.items, read_only |-> block_ro],
                          size |-> IF version = U64(ApeVersion)
                                   THEN Add(size, U64(FooterLen)) ELSE size]

\* find_id3v2(data, false): the position past a leading ID3v2 tag, 0 if none
Id3v2Magic == <<73, 68, 51>>                           \* "ID3"
FindId3v2(bytes) ==
    IF Len(bytes) >= 10 /\ Take(bytes, 3) = Id3v2Magic
    THEN 10 + bytes[10]
    ELSE 0

\* find_id3v1(data, false): the position of a closing ID3v1 tag, the end if none
Id3v1Magic == <<84, 65, 71>>                           \* "TAG"
Id3v1Len == 128
FindId3v1(bytes) ==
    IF Len(bytes) >= Id3v1Len
       /\ Slice(bytes, Len(bytes) - Id3v1Len, Len(bytes) - Id3v1Len + 3) = Id3v1Magic
    THEN Len(bytes) - Id3v1Len
    ELSE Len(bytes)

\* find_lyrics3v2(data): the position of a Lyrics3v2 block ending at p, p if none
Lyrics3v2End == <<76, 89, 82, 73, 67, 83, 50, 48, 48>>  \* "LYRICS200"
RECURSIVE Decimal(_)
Decimal(digits) ==
    IF digits = <<>> THEN 0
    ELSE 10 * Decimal(Take(digits, Len(digits) - 1)) + (digits[Len(digits)] - 48)
FindLyrics3v2(bytes, p) ==
    IF p >= 15 /\ Slice(bytes, p - 9, p) = Lyrics3v2End
    THEN LET size == Decimal(Slice(bytes, p - 15, p - 9))
         IN  IF size + 15 > p THEN [err |-> "SeekBeforeStart", pos |-> p]
             ELSE [err |-> "None", pos |-> p - (size + 15)]
    ELSE [err |-> "None", pos |-> p]

\* the file types the probe can report
FileTypes == {"APE", "MP3", "WAV"}

\* Vec::splice(a..b, new) and Vec::drain(a..b)
Splice(buf, a, b, new) == Take(buf, a) \o new \o Drop(buf, b)
Drain(buf, a, b) == Take(buf, a) \o Drop(buf, b)

\* items.retain(|i| i.read_only)
Retain(items) == SelectSeq(items, LAMBDA i : i.read_only)
----------------------------------------------------------------------------
(* The files write_to is called on *)

Id3v2Block == Id3v2Magic \o <<4, 0, 0, 0, 0, 0, 2>> \o <<9, 9>>
Id3v1Block == Id3v1Magic \o Zeros(Id3v1Len - 3)
Lyrics3v2Block ==
    <<76, 89, 82, 73, 67, 83, 66, 69, 71, 73, 78>>     \* "LYRICSBEGIN"
        \o <<48, 48, 48, 48, 49, 49>>                  \* "000011"
        \o Lyrics3v2End

\* n bytes of audio, none of them part of a tag signature
Audio(n) == [i \in 1..n |-> IF i = 1 THEN 255 ELSE 200 + (i % 50)]

\* a tag block as this serializer writes it
Full(t) == CreateApeTag(t).bytes
\* the same block with its header missing
NoHeader(t) == Drop(Full(t), FooterLen)
\* a version 1000 block: the items and a footer, no header
V1(t) ==
    WriteItems(t.items) \o APE_PREAMBLE \o LE32(U64(1000))
        \o LE32(Add(ItemsSize(t.items), U64(FooterLen)))
        \o LE32(U64(Len(t.items))) \o Zeros(4) \o Zeros(8)

DiskTags ==
    {Tag(<<ItemA>>, FALSE), Tag(<<ItemA2>>, FALSE), Tag(<<ItemA, ItemB>>, FALSE)}

Id3v2Opts == {<<>>, Id3v2Block}
LeadingOpts == {<<>>} \cup {Full(t) : t \in DiskTags}
AudioOpts == {<<>>, Audio(ShortAudio), Audio(LongAudio)}
TrailingOpts ==
    {<<>>} \cup {Full(t) : t \in DiskTags}
        \cup {V1(Tag(<<ItemA, ItemB>>, FALSE)), NoHeader(Tag(<<ItemA>>, FALSE))}
LegacyOpts == {<<>>, Id3v1Block, Lyrics3v2Block \o Id3v1Block}

Files ==
    {a \o b \o c \o d \o e :
        a \in Id3v2Opts, b \in LeadingOpts, c \in AudioOpts,
        d \in TrailingOpts, e \in LegacyOpts}

\* a payload of 2^32 bytes
Huge == Add(U32_MAX, U64(1))

CallerTags ==
    {Tag(s, FALSE) : s \in {x \in SmallItemSeqs \cup {<<ItemA, ItemB, ItemC>>} :
                               Len(x) <= MaxItems}}
        \cup {Tag(<<Bulky(ItemC, Huge)>>, FALSE)}

----------------------------------------------------------------------------
(* The chunk cursor: Chunks<B> *)

\* read_u32::<B> and its inverse, for B big or little endian
ReadU32(ord, b) ==
    IF ord = "BE"
    THEN ((b[1] * 256 + b[2]) * 256 + b[3]) * 256 + b[4]
    ELSE ((b[4] * 256 + b[3]) * 256 + b[2]) * 256 + b[1]
WriteU32(ord, n) ==
    LET le == <<n % 256, (n \div 256) % 256, (n \div Half) % 256,
                (n \div (256 * Half)) % 256>>
    IN  IF ord = "BE" THEN <<le[4], le[3], le[2], le[1]>> ELSE le

\* read_id3v2_header over the chunk's content: whether the tag has a footer
Id3FooterFlag == 16
ReadId3v2Header(value) ==
    IF Len(value) >= 10 /\ Take(value, 3) = Id3v2Magic
    THEN [err |-> "None", footer |-> (value[6] \div Id3FooterFlag) % 2 = 1]
    ELSE [err |-> "BadId3v2", footer |-> FALSE]

\* str::trim_matches('\0')
RECURSIVE TrimNul(_)
TrimNul(s) ==
    IF s = <<>> THEN s
    ELSE IF Head(s) = 0 THEN TrimNul(Tail(s))
    ELSE IF s[Len(s)] = 0 THEN TrimNul(Take(s, Len(s) - 1))
    ELSE s

\* the position correct_position leaves (lines 138-150)
Pad(at, sz) == IF sz % 2 # 0 THEN at + 1 ELSE at

\* A well-formed chunk stream: each chunk is its identifier, the length of its
\* payload, the payload, and a padding byte after a payload of odd length.
Chunk(id, payload) == [fourcc |-> id, payload |-> payload]
EncodeChunk(ord, c) ==
    c.fourcc \o WriteU32(ord, Len(c.payload)) \o c.payload
        \o (IF Len(c.payload) % 2 # 0 THEN <<0>> ELSE <<>>)
RECURSIVE EncodeChunks(_, _)
EncodeChunks(ord, cs) ==
    IF cs = <<>> THEN <<>>
    ELSE EncodeChunk(ord, Head(cs)) \o EncodeChunks(ord, Tail(cs))

NameId == <<78, 65, 77, 69>>                           \* "NAME"
Id3Id == <<73, 68, 51, 32>>                            \* "ID3 "
Text == <<97, 0, 98, 99, 100, 0, 101, 102>>
\* an ID3v2 tag: header, body, and a footer when the header's flag says so
Id3v2Tag(body, footer) ==
    Id3v2Magic \o <<4, 0, IF footer THEN Id3FooterFlag ELSE 0, 0, 0, 0, Len(body)>>
        \o body
        \o (IF footer THEN <<51, 68, 73, 4, 0, Id3FooterFlag, 0, 0, 0, Len(body)>>
            ELSE <<>>)

ChunkPool ==
    {Chunk(NameId, Take(Text, n)) : n \in 0..MaxPayload}
        \cup {Chunk(Id3Id, Id3v2Tag(Take(Text, n), f)) : n \in 0..1, f \in BOOLEAN}

RECURSIVE ChunkSeqs(_)
ChunkSeqs(n) ==
    IF n = 0 THEN {<<>>}
    ELSE ChunkSeqs(n - 1)
             \cup {<<c>> \o s : c \in ChunkPool, s \in {x \in ChunkSeqs(n - 1) : Len(x) = n - 1}}

\* the offsets at which the chunk headers of the stream start
RECURSIVE HeaderStarts(_, _, _)
HeaderStarts(ord, cs, at) ==
    IF cs = <<>> THEN {at}
    ELSE {at} \cup HeaderStarts(ord, Tail(cs), at + Len(EncodeChunk(ord, Head(cs))))

ChunkStart(ord, cs) ==
    /\ order = ord
    /\ layout = cs
    /\ stream = EncodeChunks(ord, cs)
    /\ cpos = 0
    /\ chunks = [fourcc |-> <<0, 0, 0, 0>>, size |-> 0]
    /\ phase = "header"
    /\ payload_start = 0
    /\ last_op = "new"
    /\ returned = <<>>
    /\ padded = TRUE

ChunkIdle == ChunkStart("BE", <<>>)

----------------------------------------------------------------------------
(* write_to *)

None == [some |-> FALSE, tag |-> NoTag]
Some(t) == [some |-> TRUE, tag |-> t]
NoRange == [some |-> FALSE, start |-> 0, end |-> 0]
NoBlock == [found |-> FALSE, items |-> <<>>]

ApeStart(f, t) ==
    /\ data = f
    /\ orig = f
    /\ tag = t
    /\ result = "None"
    /\ read_only = None
    /\ header_ape_tag = [found |-> FALSE, start |-> 0, end |-> U64(0)]
    /\ ape_position = 0
    /\ ape_tag_location = NoRange
    /\ written = NoTag
    /\ tag_bytes = <<>>
    /\ file_bytes = <<>>
    /\ existing_h = NoBlock
    /\ existing_f = NoBlock

ApeIdle == pc = "return" /\ calls = 0 /\ ApeStart(<<>>, NoTag)

\* write_to returns r
Return(r) == pc' = "return" /\ result' = r

\* lines 17-24: the probe and the file type gate
Probe ==
    /\ pc = "probe"
    /\ \E ft \in FileTypes :
           IF ft = "APE" \/ ft = "MP3"
           THEN pc' = "leading" /\ UNCHANGED result
           ELSE Return("UnsupportedTag")
    /\ UNCHANGED <<data, tag, read_only, header_ape_tag, ape_position,
                   ape_tag_location, written, tag_bytes, file_bytes, orig,
                   existing_h, existing_f, calls, serVars, chunkVars>>

\* what the read-only items of a parsed tag make of read_only (lines 46-50, 77-81)
KeepReadOnly(existing, before) ==
    IF Retain(existing.items) # <<>>
    THEN Some([existing EXCEPT !.items = Retain(existing.items)])
    ELSE before

\* lines 26-55: skip the ID3v2 tag, look for an APE tag where the file begins
LocateLeading ==
    /\ pc = "leading"
    /\ LET p == FindId3v2(data)
       IN  IF p + 8 > Len(data)
           THEN /\ Return("UnexpectedEof")
                /\ UNCHANGED <<read_only, header_ape_tag, existing_h>>
           ELSE IF Slice(data, p, p + 8) = APE_PREAMBLE
           THEN LET r == ReadApeTag(data, p + 8, FALSE)
                IN  IF r.err # "None"
                    THEN /\ Return(r.err)
                         /\ UNCHANGED <<read_only, header_ape_tag, existing_h>>
                    ELSE /\ existing_h' = [found |-> TRUE, items |-> r.tag.items]
                         /\ read_only' = KeepReadOnly(r.tag, read_only)
                         /\ header_ape_tag' =
                                [found |-> TRUE, start |-> p,
                                 end |-> Add(U64(p), r.size)]
                         /\ pc' = "trailing"
                         /\ UNCHANGED result
           ELSE /\ pc' = "trailing"
                /\ UNCHANGED <<result, read_only, header_ape_tag, existing_h>>
    /\ UNCHANGED <<data, tag, ape_position, ape_tag_location, written, tag_bytes,
                   file_bytes, orig, existing_f, calls, serVars, chunkVars>>

\* lines 57-89: skip ID3v1 and Lyrics3v2, look for an APE tag at the end
LocateTrailing ==
    /\ pc = "trailing"
    /\ LET ly == FindLyrics3v2(data, FindId3v1(data))
           ap == ly.pos
       IN  IF ly.err # "None"
           THEN /\ Return(ly.err)
                /\ UNCHANGED <<read_only, ape_position, ape_tag_location, existing_f>>
           ELSE IF ap < FooterLen
           THEN /\ Return("SeekBeforeStart")
                /\ ape_position' = ap
                /\ UNCHANGED <<read_only, ape_tag_location, existing_f>>
           ELSE IF Slice(data, ap - FooterLen, ap - FooterLen + 8) = APE_PREAMBLE
           THEN LET start == (ap - FooterLen + 8) + 24
                    r == ReadApeTag(data, ap - FooterLen + 8, TRUE)
                IN  IF r.err # "None"
                    THEN /\ Return(r.err)
                         /\ ape_position' = ap
                         /\ UNCHANGED <<read_only, ape_tag_location, existing_f>>
                    ELSE /\ ape_position' = ap
                         /\ existing_f' = [found |-> TRUE, items |-> r.tag.items]
                         /\ read_only' = KeepReadOnly(r.tag, read_only)
                         /\ IF GT(r.size, U64(start))
                            THEN /\ Return("InvalidSize")
                                 /\ UNCHANGED ape_tag_location
                            ELSE /\ ape_tag_location' =
                                        [some |-> TRUE,
                                         start |-> start - ToNat(r.size),
                                         end |-> start]
                                 /\ pc' = "serialize"
                                 /\ UNCHANGED result
           ELSE /\ ape_position' = ap
                /\ pc' = "serialize"
                /\ UNCHANGED <<result, read_only, ape_tag_location, existing_f>>
    /\ UNCHANGED <<data, tag, header_ape_tag, written, tag_bytes, file_bytes, orig,
                   existing_h, calls, serVars, chunkVars>>

\* the tag write_to serializes (lines 92-96)
TagToWrite == IF read_only.some THEN read_only.tag ELSE tag

\* lines 91-96 as they would run after set_len(0)
SerializeAfterTruncate ==
    /\ pc = "serialize"
    /\ written' = TagToWrite
    /\ LET out == CreateApeTag(TagToWrite)
       IN  IF out.err # "None"
           THEN Return(out.err) /\ tag_bytes' = <<>> /\ data' = <<>>
           ELSE pc' = "rewrite" /\ tag_bytes' = out.bytes /\ UNCHANGED <<result, data>>
    /\ UNCHANGED <<tag, read_only, header_ape_tag, ape_position,
                   ape_tag_location, file_bytes, orig, existing_h, existing_f,
                   calls, serVars, chunkVars>>

\* lines 91-96: serialize the read-only items if there are any, else the caller's tag
Serialize ==
    /\ pc = "serialize"
    /\ written' = TagToWrite
    /\ LET out == CreateApeTag(TagToWrite)
       IN  IF out.err # "None"
           THEN Return(out.err) /\ tag_bytes' = <<>>
           ELSE pc' = "rewrite" /\ tag_bytes' = out.bytes /\ UNCHANGED result
    /\ UNCHANGED <<data, tag, read_only, header_ape_tag, ape_position,
                   ape_tag_location, file_bytes, orig, existing_h, existing_f,
                   calls, serVars, chunkVars>>

\* lines 98-113: read the file, put the tag in its place, remove a leading tag
Rewrite ==
    /\ pc = "rewrite"
    /\ LET spliced ==
               IF ape_tag_location.some
               THEN Splice(data, ape_tag_location.start, ape_tag_location.end,
                           tag_bytes)
               ELSE Splice(data, ape_position, ape_position, tag_bytes)
       IN  IF header_ape_tag.found
           THEN IF GT(header_ape_tag.end, U64(Len(spliced)))
                THEN Return("Panic") /\ file_bytes' = spliced
                ELSE /\ file_bytes' = Drain(spliced, header_ape_tag.start,
                                            ToNat(header_ape_tag.end))
                     /\ pc' = "persist"
                     /\ UNCHANGED result
           ELSE file_bytes' = spliced /\ pc' = "persist" /\ UNCHANGED result
    /\ UNCHANGED <<data, tag, read_only, header_ape_tag, ape_position,
                   ape_tag_location, written, tag_bytes, orig, existing_h,
                   existing_f, calls, serVars, chunkVars>>

\* lines 115-119: truncate the file and write the buffer
Persist ==
    /\ pc = "persist"
    /\ data' = file_bytes
    /\ Return("Ok")
    /\ UNCHANGED <<tag, read_only, header_ape_tag, ape_position,
                   ape_tag_location, written, tag_bytes, file_bytes, orig,
                   existing_h, existing_f, calls, serVars, chunkVars>>

\* the caller saves the same tag again, to the file as the last call left it
Resave ==
    /\ pc = "return" /\ result = "Ok"
    /\ calls < MaxCalls
    /\ calls' = calls + 1
    /\ pc' = "probe"
    /\ orig' = data
    /\ result' = "None"
    /\ read_only' = None
    /\ header_ape_tag' = [found |-> FALSE, start |-> 0, end |-> U64(0)]
    /\ ape_position' = 0
    /\ ape_tag_location' = NoRange
    /\ written' = NoTag
    /\ tag_bytes' = <<>>
    /\ file_bytes' = <<>>
    /\ existing_h' = NoBlock
    /\ existing_f' = NoBlock
    /\ UNCHANGED <<data, tag, serVars, chunkVars>>

Init ==
    /\ pc = "probe"
    /\ calls = 1
    /\ \E f \in Files, t \in CallerTags : ApeStart(f, t)
    /\ SerIdle
    /\ ChunkIdle

Next ==
    \/ Probe \/ LocateLeading \/ LocateTrailing \/ Serialize \/ Rewrite
    \/ Persist \/ Resave

Spec == Init /\ [][Next]_vars

----------------------------------------------------------------------------
(* Claims about write_to *)

Done == pc = "return"
Failed == Done /\ result \notin {"None", "Ok", "Panic"}
SetOf(s) == {s[i] : i \in DOMAIN s}
ReadOnlyOf(block) == {i \in SetOf(block.items) : i.read_only}
\* the read-only items of every located block
OverrideSet == ReadOnlyOf(existing_h) \cup ReadOnlyOf(existing_f)
OverrideKeys == {i.key : i \in OverrideSet}
\* where the standard position starts: the trailing tag, else the fallback point
StdStart == IF ape_tag_location.some THEN ape_tag_location.start ELSE ape_position
LeadStart == header_ape_tag.start
LeadEnd == ToNat(header_ape_tag.end)

\* C1: every item that is read-only on disk, in the leading block, in the
\* trailing block or in both, is among the items write_to serializes.
C1_ReadOnlyUnion ==
    (Done /\ result = "Ok") => OverrideSet \subseteq SetOf(written.items)

\* C2: the items write_to serializes are the caller's items whose key is not
\* the key of an override item, plus override items: a caller's item with a
\* key of its own is written also when the file holds a read-only item.
\* (That every override item is among them is C1.)
C2_MergedItems ==
    (Done /\ result = "Ok") =>
        LET kept == {i \in SetOf(tag.items) : i.key \notin OverrideKeys}
        IN  /\ kept \subseteq SetOf(written.items)
            /\ SetOf(written.items) \subseteq kept \cup OverrideSet

\* C3: when write_to returns an error of the probe, of tag location or of
\* serialization, the file is as it was before the call; an underflowing start
\* of the trailing tag is the invalid-size error, never a wrapped range.
C3_FailuresLeaveFile ==
    /\ Failed => data = orig
    /\ (Done /\ existing_f.found /\ ~ape_tag_location.some) => result = "InvalidSize"
    /\ ape_tag_location.some =>
           /\ 0 <= ape_tag_location.start
           /\ ape_tag_location.start <= ape_tag_location.end
           /\ ape_tag_location.end = ape_position

C3_Witness ==
    /\ Done /\ result = "TooMuchData"
    /\ ape_tag_location.some /\ header_ape_tag.found
    /\ data = orig /\ data # <<>>

C6_ResaveIdentical ==
    (Done /\ result = "Ok" /\ tag.items # <<>>
          /\ ~header_ape_tag.found /\ ape_tag_location.some
          /\ Slice(orig, ape_tag_location.start, ape_tag_location.end)
                 = CreateApeTag(tag).bytes) =>
        data = orig

\* C10: a located leading tag ends at or before the standard position, so the
\* save yields original[0..ls] ++ original[le..ts] ++ tag ++ original[fallback..]
\* and the drain neither removes bytes of the new tag nor panics.
C10_LeadingBeforeStandard ==
    (Done /\ result \in {"Ok", "Panic"} /\ header_ape_tag.found) =>
        /\ LeadEnd <= StdStart
        /\ result = "Ok"
        /\ data = Take(orig, LeadStart) \o Slice(orig, LeadEnd, StdStart)
                    \o tag_bytes \o Drop(orig, ape_position)

----------------------------------------------------------------------------
(* create_ape_tag on its own *)

InitSerialize ==
    /\ ApeIdle
    /\ ChunkIdle
    /\ \E t \in SerTags : ser = [tag |-> t, out |-> NoOutput, done |-> FALSE]

SerCreate ==
    /\ ~ser.done
    /\ ser' = [ser EXCEPT !.out = CreateApeTag(ser.tag), !.done = TRUE]
    /\ UNCHANGED <<apeVars, chunkVars>>

NextSerialize == SerCreate

SpecSerialize == InitSerialize /\ [][NextSerialize]_vars

----------------------------------------------------------------------------
(* Claims about create_ape_tag *)

NoBulk(t) == \A i \in DOMAIN t.items : t.items[i].bulk = U64(0)
SerSize == ItemsSize(ser.tag.items)

\* the bytes of one item as the format lays them out: value length, flags
\* (bit 0 read-only, bits 1-2 the kind), key, NUL, value
LayoutOfItem(item) ==
    <<Len(item.value), 0, 0, 0>>
        \o <<(CASE item.kind = "Text" -> 0 [] item.kind = "Binary" -> 2
                [] item.kind = "Locator" -> 4)
              + (IF item.read_only THEN 1 ELSE 0), 0, 0, 0>>
        \o item.key \o <<0>> \o item.value
RECURSIVE LayoutOfItems(_)
LayoutOfItems(items) ==
    IF items = <<>> THEN <<>>
    ELSE LayoutOfItem(Head(items)) \o LayoutOfItems(Tail(items))

\* C7: for a nonempty item sequence create_ape_tag returns header ++ items ++
\* footer, the items in input order; the footer holds the preamble, version
\* 2000, the size of the items plus 32, the item count, flags with bits 30 and
\* 31 set, bit 29 unset and bit 0 the tag's read-only flag, and 8 zero bytes;
\* the header is the footer with bit 29 of the flags set.
C7_TagLayout ==
    (ser.done /\ ser.tag.items # <<>> /\ NoBulk(ser.tag)) =>
        LET out == ser.out.bytes
            n == Len(out)
            items == LayoutOfItems(ser.tag.items)
            ro == IF ser.tag.read_only THEN 1 ELSE 0
            frame(top) ==
                <<65, 80, 69, 84, 65, 71, 69, 88>> \o <<208, 7, 0, 0>>
                    \o <<(Len(items) + 32) % 256, (Len(items) + 32) \div 256, 0, 0>>
                    \o <<Len(ser.tag.items), 0, 0, 0>>
                    \o <<ro, 0, 0, top>>
                    \o <<0, 0, 0, 0, 0, 0, 0, 0>>
        IN  /\ ser.out.err = "None"
            /\ n = 32 + Len(items) + 32
            /\ Slice(out, 32, n - 32) = items
            /\ Drop(out, n - 32) = frame(128 + 64)
            /\ Take(out, 32) = frame(128 + 64 + 32)

C7_Witness ==
    /\ ser.done
    /\ ser.tag = Tag(<<ItemA, ItemB>>, TRUE)
    /\ Len(ser.out.bytes) = 64 + Len(LayoutOfItems(<<ItemA, ItemB>>))

\* the value length fields of the items written from offset off on
RECURSIVE ValueLenFields(_, _, _)
ValueLenFields(bytes, items, off) ==
    IF items = <<>> THEN <<>>
    ELSE <<ReadLE32(Slice(bytes, off, off + 4))>>
             \o ValueLenFields(bytes, Tail(items),
                               off + 8 + Len(Head(items).key) + 1
                                   + Len(Head(items).value))

\* C8 as stated: an item set whose serialized size, header + items + footer,
\* exceeds u32::MAX is rejected with TooMuchData.
C8_Original ==
    (ser.done /\ ser.tag.items # <<>>) =>
        /\ GT(Add(SerSize, U64(64)), U32_MAX) => ser.out.err = "TooMuchData"
        /\ ser.out.err = "None" => ~GT(ser.out.len, U32_MAX)

\* C8 as amended: an item set whose items and footer, the value of the size
\* field, exceed u32::MAX is rejected with TooMuchData and no bytes; a tag
\* that create_ape_tag returns holds every length, size and count untruncated.
C8_SizeFieldGuard ==
    (ser.done /\ ser.tag.items # <<>>) =>
        /\ GT(Add(SerSize, U64(32)), U32_MAX) =>
               ser.out.err = "TooMuchData" /\ ser.out.bytes = <<>>
        /\ ~GT(Add(SerSize, U64(32)), U32_MAX) => ser.out.err = "None"
        /\ ser.out.err = "None" =>
               LET out == ser.out.bytes
                   footer == Drop(out, Len(out) - 32)
               IN  /\ ReadLE32(Slice(footer, 12, 16)) = Add(SerSize, U64(32))
                   /\ ReadLE32(Slice(out, 12, 16)) = Add(SerSize, U64(32))
                   /\ ReadLE32(Slice(footer, 16, 20)) = U64(Len(ser.tag.items))
                   /\ ValueLenFields(out, ser.tag.items, 32)
                          = [i \in DOMAIN ser.tag.items |-> ValueLen(ser.tag.items[i])]

C8_Witness ==
    /\ ser.done
    /\ ser.out.err = "TooMuchData"
    /\ Add(SerSize, U64(32)) = Add(U32_MAX, U64(1))

----------------------------------------------------------------------------
(* The operations of Chunks<B> *)

\* an operation fails: the error is returned
ChunkErr(op) ==
    /\ phase' = "err"
    /\ last_op' = op
    /\ UNCHANGED <<cpos, returned>>

\* next (lines 31-39)
ChunkNext ==
    /\ phase \in {"header", "unpadded"}
    /\ IF cpos + 8 > Len(stream)
       THEN /\ phase' = "eof"
            /\ UNCHANGED <<cpos, chunks, payload_start>>
       ELSE /\ chunks' = [fourcc |-> Slice(stream, cpos, cpos + 4),
                          size |-> ReadU32(order, Slice(stream, cpos + 4, cpos + 8))]
            /\ cpos' = cpos + 8
            /\ payload_start' = cpos + 8
            /\ phase' = "payload"
    /\ padded' = (padded /\ phase = "header")
    /\ last_op' = "next"
    /\ UNCHANGED <<order, layout, stream, returned, apeVars, serVars>>

\* read_cstring (lines 41-51)
ReadCString ==
    /\ phase = "payload"
    /\ IF cpos + chunks.size > Len(stream)
       THEN ChunkErr("read_cstring")
       ELSE /\ cpos' = Pad(cpos + chunks.size, chunks.size)
            /\ returned' = TrimNul(Slice(stream, cpos, cpos + chunks.size))
            /\ phase' = "header"
            /\ last_op' = "read_cstring"
    /\ UNCHANGED <<order, layout, stream, chunks, payload_start, padded,
                   apeVars, serVars>>

\* read_pstring with no explicit size (lines 53-71, size = None)
ReadPString ==
    /\ phase = "payload"
    /\ IF cpos + chunks.size > Len(stream)
       THEN ChunkErr("read_pstring")
       ELSE LET cont == Slice(stream, cpos, cpos + chunks.size)
            IN  /\ cpos' = IF Len(cont) % 2 # 0 THEN cpos + chunks.size + 1 ELSE cpos + chunks.size
                /\ returned' = cont
                /\ phase' = "header"
                /\ last_op' = "read_pstring"
    /\ UNCHANGED <<order, layout, stream, chunks, payload_start, padded,
                   apeVars, serVars>>

\* read_pstring with an explicit size (lines 53-71, size = Some(n))
ReadPStringSized ==
    /\ phase = "payload"
    /\ \E n \in 0..MaxPayload :
           IF cpos + n > Len(stream)
           THEN ChunkErr("read_pstring_sized")
           ELSE LET cont == Slice(stream, cpos, cpos + n)
                IN  /\ cpos' = IF Len(cont) % 2 # 0 THEN cpos + n + 1 ELSE cpos + n
                    /\ returned' = cont
                    /\ phase' = "unpadded"
                    /\ last_op' = "read_pstring_sized"
    /\ UNCHANGED <<order, layout, stream, chunks, payload_start, padded,
                   apeVars, serVars>>

\* content (lines 73-81): no padding correction
Content ==
    /\ phase = "payload"
    /\ IF cpos + chunks.size > Len(stream)
       THEN ChunkErr("content")
       ELSE /\ cpos' = cpos + chunks.size
            /\ returned' = Slice(stream, cpos, cpos + chunks.size)
            /\ phase' = "unpadded"
            /\ last_op' = "content"
    /\ UNCHANGED <<order, layout, stream, chunks, payload_start, padded,
                   apeVars, serVars>>

\* id3_chunk (lines 84-104 and 107-126)
Id3Chunk ==
    /\ phase = "payload"
    /\ IF cpos + chunks.size > Len(stream)
       THEN ChunkErr("id3_chunk")
       ELSE LET content == Slice(stream, cpos, cpos + chunks.size)
                header == ReadId3v2Header(content)
            IN  IF header.err # "None"
                THEN /\ phase' = "err"
                     /\ last_op' = "id3_chunk"
                     /\ cpos' = cpos + chunks.size
                     /\ UNCHANGED returned
                ELSE /\ cpos' = Pad(IF header.footer THEN cpos + chunks.size + 10
                                    ELSE cpos + chunks.size, chunks.size)
                     /\ returned' = content
                     /\ phase' = "header"
                     /\ last_op' = "id3_chunk"
    /\ UNCHANGED <<order, layout, stream, chunks, payload_start, padded,
                   apeVars, serVars>>

\* skip (lines 128-136)
Skip ==
    /\ phase = "payload"
    /\ cpos' = Pad(cpos + chunks.size, chunks.size)
    /\ phase' = "header"
    /\ last_op' = "skip"
    /\ UNCHANGED <<order, layout, stream, chunks, payload_start, padded,
                   returned, apeVars, serVars>>

\* correct_position called by itself, after content (lines 138-150)
CorrectPosition ==
    /\ phase = "unpadded"
    /\ last_op = "content"
    /\ cpos' = Pad(cpos, chunks.size)
    /\ phase' = "header"
    /\ last_op' = "correct_position"
    /\ UNCHANGED <<order, layout, stream, chunks, payload_start, padded,
                   returned, apeVars, serVars>>

InitChunks ==
    /\ ApeIdle
    /\ SerIdle
    /\ \E ord \in {"BE", "LE"}, cs \in ChunkSeqs(MaxChunks) : ChunkStart(ord, cs)

NextChunks ==
    \/ ChunkNext \/ ReadCString \/ ReadPString \/ ReadPStringSized \/ Content
    \/ Id3Chunk \/ Skip \/ CorrectPosition

SpecChunks == InitChunks /\ [][NextChunks]_vars

----------------------------------------------------------------------------
(* Claims about the chunk cursor *)

\* C9: after next() has read a header with size s at payload offset p, each of
\* skip, read_cstring, read_pstring without a length and id3_chunk leaves the
\* stream at p + s + (s mod 2), so over a well-formed stream every header is
\* read at its true start.
C9_NextChunkAtTrueStart ==
    /\ (phase = "header"
            /\ last_op \in {"skip", "read_cstring", "read_pstring", "id3_chunk"}) =>
           cpos = payload_start + chunks.size + (chunks.size % 2)
    /\ (phase = "payload" /\ padded) =>
           payload_start - 8 \in HeaderStarts(order, layout, 0)

====
